---- MODULE Spec2Model ----
(***************************************************************************)
(* Model of update_stargaze_dataset.py: fetch an hourly forecast, add the  *)
(* sun/moon features, merge the rows into the CSV dataset on disk.         *)
(*                                                                         *)
(* Units.  A datetime is a whole number of hours since day 0, 00:00 UTC.   *)
(* Angles in degrees are kept in tenths of a degree (-120 is -12.0), the   *)
(* moon phase in whole degrees, the illuminated fraction in thousandths    *)
(* (1000 is 1.0), visibility_km as kilometres plus thousandths.            *)
(***************************************************************************)
EXTENDS Integers, Sequences, FiniteSets, TLC

VARIABLES
    fileExists,   \* os.path.exists(CSV_PATH)
    fileRows,     \* the text rows of the CSV file (header left out)
    pc,           \* position of the run in __main__
    df,           \* the frame returned by fetch_open_meteo_hourly
    df2,          \* the frame returned by add_astronomy_features
    startExists,  \* history: fileExists when the run began
    startRows,    \* history: fileRows when the run began
    writes,       \* history: number of to_csv calls of the run
    seen,         \* history: every datetime_utc handed to save_merged so far
    cpc,          \* two concurrent runs: position of each
    cdf,          \* two concurrent runs: the annotated frame of each
    cexisting,    \* two concurrent runs: what load_existing returned to each
    overlapped    \* history: the two runs were in progress at the same time

vars == <<fileExists, fileRows, pc, df, df2, startExists, startRows, writes,
          seen, cpc, cdf, cexisting, overlapped>>

seqVars == <<pc, df, df2, startExists, startRows, writes, seen>>
concVars == <<cpc, cdf, cexisting, overlapped>>

-----------------------------------------------------------------------------
(* Bounds *)

\* datetimes of the model: MaxTime + 1 consecutive hours, from 23:00 of day 0
MaxTime == 1
\* most hourly entries in one API response
MaxRows == 2
\* most hourly entries in one API response of a concurrent run
MaxConcRows == 1

Times == { 23 + i : i \in 0..MaxTime }

\* the hourly forecast values the API may return for an hour
Forecasts ==
    { [cloud |-> 20, precip_prob |-> 0,  visibility_m |-> 24140, temp_c |-> 27, wind_m_s |-> 3],
      [cloud |-> 50, precip_prob |-> 40, visibility_m |-> 9500,  temp_c |-> 25, wind_m_s |-> 6] }

SeqsUpTo(S, n) == UNION { [1..k -> S] : k \in 0..n }

Procs == {1, 2}
Other(p) == 3 - p

-----------------------------------------------------------------------------
(* Text forms: the API's ISO times and the CSV cells *)

\* "YYYY-MM-DDTHH:00" / "YYYY-MM-DD HH:00:00": a date part and an hour part
FormatDatetime(t) == [date |-> t \div 24, hour |-> t % 24]

\* pd.to_datetime / read_csv(parse_dates=...)
ToDatetime(s) == s.date * 24 + s.hour

\* a float cell in tenths: sign, integer digits, first decimal
FormatFloat(x) ==
    LET a == IF x < 0 THEN -x ELSE x
    IN  [neg |-> x < 0, whole |-> a \div 10, frac |-> a % 10]

ParseFloat(c) ==
    LET a == c.whole * 10 + c.frac
    IN  IF c.neg THEN -a ELSE a

FormatBool(b) == IF b THEN "True" ELSE "False"

ParseBool(c) == c = "True"

-----------------------------------------------------------------------------
(* fetch_open_meteo_hourly *)

\* r.json()['hourly']: one entry per hour, any times in any order
Responses(n) ==
    SeqsUpTo({ [time |-> FormatDatetime(t), values |-> f] : t \in Times, f \in Forecasts }, n)

FetchOpenMeteoHourly(data) ==
    [i \in 1..Len(data) |->
        [datetime_utc |-> ToDatetime(data[i].time),
         cloud        |-> data[i].values.cloud,
         precip_prob  |-> data[i].values.precip_prob,
         visibility_m |-> data[i].values.visibility_m,
         temp_c       |-> data[i].values.temp_c,
         wind_m_s     |-> data[i].values.wind_m_s]]

-----------------------------------------------------------------------------
(* add_astronomy_features *)

\* the ephemeris: the sky is a function of the time (the place is fixed)
SunAlt(t)  == <<-120, -121, -119>>[(t % 3) + 1]
MoonAlt(t) == <<305, -47, 0>>[(t % 3) + 1]
MoonPhase(t) == <<0, 90, 270, 180>>[(t % 4) + 1]

\* math.cos, in thousandths, at the multiples of 30 degrees
Cos(d) ==
    LET r == d % 360
        a == IF r > 180 THEN 360 - r ELSE r
    IN  CASE a = 0   -> 1000
          [] a = 30  -> 866
          [] a = 60  -> 500
          [] a = 90  -> 0
          [] a = 120 -> -500
          [] a = 150 -> -866
          [] a = 180 -> -1000

\* illum = (1 + math.cos(moon_phase)) / 2
Illum(moon_phase) == (1000 + Cos(moon_phase)) \div 2

NightThreshold == -120

IsNightStrict(sun_alt_deg) == sun_alt_deg < NightThreshold

\* df['is_night'] = df['sun_alt_deg'] <= -12.0
IsNight(sun_alt_deg) == sun_alt_deg <= NightThreshold

\* df['visibility_km'] = df['visibility_m'] / 1000.0
VisibilityKm(visibility_m) ==
    [km |-> visibility_m \div 1000, thousandths |-> visibility_m % 1000]

AddAstronomyFeatures(d) ==
    [i \in 1..Len(d) |->
        [datetime_utc  |-> d[i].datetime_utc,
         cloud         |-> d[i].cloud,
         precip_prob   |-> d[i].precip_prob,
         visibility_m  |-> d[i].visibility_m,
         temp_c        |-> d[i].temp_c,
         wind_m_s      |-> d[i].wind_m_s,
         sun_alt_deg   |-> SunAlt(d[i].datetime_utc),
         moon_alt_deg  |-> MoonAlt(d[i].datetime_utc),
         moon_illum    |-> Illum(MoonPhase(d[i].datetime_utc)),
         is_night      |-> IsNight(SunAlt(d[i].datetime_utc)),
         visibility_km |-> VisibilityKm(d[i].visibility_m)]]

-----------------------------------------------------------------------------
(* The CSV file *)

FormatRow(r) ==
    [datetime_utc  |-> FormatDatetime(r.datetime_utc),
     cloud         |-> r.cloud,
     precip_prob   |-> r.precip_prob,
     visibility_m  |-> r.visibility_m,
     temp_c        |-> r.temp_c,
     wind_m_s      |-> r.wind_m_s,
     sun_alt_deg   |-> FormatFloat(r.sun_alt_deg),
     moon_alt_deg  |-> FormatFloat(r.moon_alt_deg),
     moon_illum    |-> r.moon_illum,
     is_night      |-> FormatBool(r.is_night),
     visibility_km |-> r.visibility_km]

ParseRow(c) ==
    [datetime_utc  |-> ToDatetime(c.datetime_utc),
     cloud         |-> c.cloud,
     precip_prob   |-> c.precip_prob,
     visibility_m  |-> c.visibility_m,
     temp_c        |-> c.temp_c,
     wind_m_s      |-> c.wind_m_s,
     sun_alt_deg   |-> ParseFloat(c.sun_alt_deg),
     moon_alt_deg  |-> ParseFloat(c.moon_alt_deg),
     moon_illum    |-> c.moon_illum,
     is_night      |-> ParseBool(c.is_night),
     visibility_km |-> c.visibility_km]

\* out.to_csv(path, index=False)
ToCsv(d) == [i \in 1..Len(d) |-> FormatRow(d[i])]

\* pd.read_csv(path, parse_dates=['datetime_utc'])
ReadCsv(rows) == [i \in 1..Len(rows) |-> ParseRow(rows[i])]

-----------------------------------------------------------------------------
(* save_merged *)

TimesOf(d) == { d[i].datetime_utc : i \in DOMAIN d }

MinOf(S) == CHOOSE x \in S : \A y \in S : x <= y

ConcatNewOnly(existing, new_df) == new_df

\* pd.concat([existing, new_df], ignore_index=True)
Concat(existing, new_df) == existing \o new_df

\* the rows of d at time t, in every order
Orders(d, t) ==
    LET G == { i \in DOMAIN d : d[i].datetime_utc = t }
        k == Cardinality(G)
    IN  { [j \in 1..k |-> d[p[j]]] :
            p \in { q \in [1..k -> G] : \A a, b \in 1..k : a # b => q[a] # q[b] } }

RECURSIVE Arrange(_, _)
Arrange(d, ts) ==
    IF ts = {} THEN { <<>> }
    ELSE LET t == MinOf(ts)
         IN  { h \o r : h \in Orders(d, t), r \in Arrange(d, ts \ {t}) }

\* combined.sort_values('datetime_utc'): the default kind is quicksort, which
\* is not stable, so rows of equal datetime_utc come out in any order
SortValues(d) == Arrange(d, TimesOf(d))

RECURSIVE KeepLastFrom(_, _)
KeepLastFrom(d, i) ==
    IF i > Len(d) THEN <<>>
    ELSE IF \E j \in (i + 1)..Len(d) : d[j].datetime_utc = d[i].datetime_utc
         THEN KeepLastFrom(d, i + 1)
         ELSE <<d[i]>> \o KeepLastFrom(d, i + 1)

\* .drop_duplicates(subset=['datetime_utc'], keep='last')
DropDuplicates(d) == KeepLastFrom(d, 1)

\* the else branch of save_merged: every frame it may write
MergedFrames(existing, new_df) ==
    { DropDuplicates(s) : s \in SortValues(Concat(existing, new_df)) }

SaveMergedAlwaysMerging(exists, existing, new_df) ==
    MergedFrames(IF exists THEN existing ELSE <<>>, new_df)

\* save_merged up to the write: every frame `out` may be, given whether the
\* file existed and what load_existing read from it
SaveMergedFrames(exists, existing, new_df) ==
    IF ~exists THEN { new_df } ELSE MergedFrames(existing, new_df)

-----------------------------------------------------------------------------
(* One run after another: __main__, run again and again *)

Init ==
    /\ fileExists = FALSE
    /\ fileRows = <<>>
    /\ pc = "start"
    /\ df = <<>>
    /\ df2 = <<>>
    /\ startExists = FALSE
    /\ startRows = <<>>
    /\ writes = 0
    /\ seen = {}
    /\ cpc = [p \in Procs |-> "start"]
    /\ cdf = [p \in Procs |-> <<>>]
    /\ cexisting = [p \in Procs |-> [exists |-> FALSE, rows |-> <<>>]]
    /\ overlapped = FALSE

\* df = fetch_open_meteo_hourly(LAT, LON, FORECAST_DAYS)
FetchOk ==
    /\ pc = "start"
    /\ \E data \in Responses(MaxRows) : df' = FetchOpenMeteoHourly(data)
    /\ pc' = "fetched"
    /\ UNCHANGED <<fileExists, fileRows, df2, startExists, startRows, writes, seen>>
    /\ UNCHANGED concVars

\* requests.get raises (timeout, connection), raise_for_status raises, or a
\* key of the response is missing
FetchFails ==
    /\ pc = "start"
    /\ pc' = "failed"
    /\ UNCHANGED <<fileExists, fileRows, df, df2, startExists, startRows, writes, seen>>
    /\ UNCHANGED concVars

\* df2 = add_astronomy_features(df, LAT, LON)
AnnotateOk ==
    /\ pc = "fetched"
    /\ df2' = AddAstronomyFeatures(df)
    /\ pc' = "annotated"
    /\ UNCHANGED <<fileExists, fileRows, df, startExists, startRows, writes, seen>>
    /\ UNCHANGED concVars

\* load('de421.bsp') or a position computation raises
AnnotateFails ==
    /\ pc = "fetched"
    /\ pc' = "failed"
    /\ UNCHANGED <<fileExists, fileRows, df, df2, startExists, startRows, writes, seen>>
    /\ UNCHANGED concVars

LoadExistingFailsTruncating ==
    /\ pc = "annotated"
    /\ fileExists
    /\ fileRows' = <<>>
    /\ pc' = "failed"
    /\ UNCHANGED <<fileExists, df, df2, startExists, startRows, writes, seen>>
    /\ UNCHANGED concVars

\* save_merged: pd.read_csv raises on the existing file
LoadExistingFails ==
    /\ pc = "annotated"
    /\ fileExists
    /\ pc' = "failed"
    /\ UNCHANGED <<fileExists, fileRows, df, df2, startExists, startRows, writes, seen>>
    /\ UNCHANGED concVars

\* save_merged(CSV_PATH, df2)
SaveMerged ==
    /\ pc = "annotated"
    /\ \E out \in SaveMergedFrames(fileExists, ReadCsv(fileRows), df2) :
          fileRows' = ToCsv(out)
    /\ fileExists' = TRUE
    /\ writes' = writes + 1
    /\ seen' = seen \cup TimesOf(df2)
    /\ pc' = "done"
    /\ UNCHANGED <<df, df2, startExists, startRows>>
    /\ UNCHANGED concVars

\* the script is started again
NextRun ==
    /\ pc \in {"done", "failed"}
    /\ pc' = "start"
    /\ df' = <<>>
    /\ df2' = <<>>
    /\ startExists' = fileExists
    /\ startRows' = fileRows
    /\ writes' = 0
    /\ UNCHANGED <<fileExists, fileRows, seen>>
    /\ UNCHANGED concVars

Next ==
    \/ FetchOk
    \/ FetchFails
    \/ AnnotateOk
    \/ AnnotateFails
    \/ LoadExistingFails
    \/ SaveMerged
    \/ NextRun

Spec == Init /\ [][Next]_vars

-----------------------------------------------------------------------------
(* Two runs of the script against the same CSV_PATH *)

\* fetch_open_meteo_hourly and add_astronomy_features of run p
CPipeline(p) ==
    /\ cpc[p] = "start"
    /\ \E data \in Responses(MaxConcRows) :
          cdf' = [cdf EXCEPT ![p] = AddAstronomyFeatures(FetchOpenMeteoHourly(data))]
    /\ cpc' = [cpc EXCEPT ![p] = "annotated"]
    /\ overlapped' = (overlapped \/ cpc[Other(p)] \in {"annotated", "loaded"})
    /\ UNCHANGED <<fileExists, fileRows, cexisting>>
    /\ UNCHANGED seqVars

\* existing = load_existing(path)
CLoad(p) ==
    /\ cpc[p] = "annotated"
    /\ cexisting' = [cexisting EXCEPT ![p] = [exists |-> fileExists, rows |-> fileRows]]
    /\ cpc' = [cpc EXCEPT ![p] = "loaded"]
    /\ UNCHANGED <<fileExists, fileRows, cdf, overlapped>>
    /\ UNCHANGED seqVars

\* the merge, then out.to_csv(path, index=False)
CWrite(p) ==
    /\ cpc[p] = "loaded"
    /\ \E out \in SaveMergedFrames(cexisting[p].exists, ReadCsv(cexisting[p].rows), cdf[p]) :
          fileRows' = ToCsv(out)
    /\ fileExists' = TRUE
    /\ cpc' = [cpc EXCEPT ![p] = "done"]
    /\ UNCHANGED <<cdf, cexisting, overlapped>>
    /\ UNCHANGED seqVars

NextConc == \E p \in Procs : CPipeline(p) \/ CLoad(p) \/ CWrite(p)

SpecConc == Init /\ [][NextConc]_vars

-----------------------------------------------------------------------------
(* The frames a finished run of save_merged worked on *)

Existing == ReadCsv(startRows)
Out == ReadCsv(fileRows)

\* the run has written the file and had found a prior dataset
MergeDone == pc = "done" /\ startExists

\* the run has written the file and had found none
FirstRunDone == pc = "done" /\ ~startExists

RowsAt(d, t) == { i \in DOMAIN d : d[i].datetime_utc = t }

-----------------------------------------------------------------------------
(* Claims *)

\* C1 (as claimed): after a merge, every datetime_utc that occurs both in the
\* prior dataset and in the new rows has exactly one row in the written
\* dataset, and that row is a row of the new frame, whatever order the sort
\* gives rows of equal datetime_utc.
C1_DedupKeepLast ==
    MergeDone =>
        \A t \in TimesOf(Existing) \cap TimesOf(df2) :
            /\ Cardinality(RowsAt(Out, t)) = 1
            /\ \A i \in RowsAt(Out, t) : \E j \in RowsAt(df2, t) : Out[i] = df2[j]

\* C2 (as claimed): whenever the dataset file exists, the first run included,
\* no two of its rows share a datetime_utc.
C2_UniqueTimes ==
    fileExists =>
        \A i, j \in DOMAIN Out : i # j => Out[i].datetime_utc # Out[j].datetime_utc

\* C3 (as claimed): whenever the dataset file exists, for any row order of the
\* fetched data, each row's datetime_utc is at most that of the row after it.
C3_SortedAscending ==
    fileExists =>
        \A i \in 1..(Len(Out) - 1) : Out[i].datetime_utc <= Out[i + 1].datetime_utc

\* C4 (as claimed): a merge whose new rows equal the persisted dataset writes
\* back that dataset, row for row.
C4_MergeIdempotent ==
    (MergeDone /\ df2 = Existing) => Out = Existing

\* C5: a run that failed (in the fetch, the annotation or the load of the
\* existing file) left the file as it was when the run began; the file
\* differs from that only once the run is done, and a run writes at most once.
C5_NoPartialPersistence ==
    /\ pc # "done" => (fileExists = startExists /\ fileRows = startRows /\ writes = 0)
    /\ pc = "done" => writes = 1

\* C5 witness: a run with annotated rows failed loading a non-empty dataset.
C5_FailedAfterAnnotation ==
    /\ pc = "failed"
    /\ df2 # <<>>
    /\ startExists
    /\ fileRows # <<>>

\* C6: a run that found no file has written exactly the new rows: the same
\* rows, in the same order and number.
C6_FirstRunAsIs ==
    FirstRunDone => (fileExists /\ Out = df2)

\* C6 witness: a first run has written two rows that a sort would have swapped.
C6_FirstRunUnsortedKept ==
    /\ FirstRunDone
    /\ Len(df2) = 2
    /\ df2[1].datetime_utc > df2[2].datetime_utc
    /\ df2[1].cloud # df2[2].cloud

\* C7: in every annotated row and in every row of the persisted dataset,
\* is_night is true exactly when sun_alt_deg <= -12.0.
C7_NightFlag ==
    /\ \A i \in DOMAIN df2 : df2[i].is_night <=> (df2[i].sun_alt_deg <= -120)
    /\ \A i \in DOMAIN Out : Out[i].is_night <=> (Out[i].sun_alt_deg <= -120)

\* C7 witness: a merged dataset holds a night row at exactly -12.0 and a row
\* that is not night.
C7_BoundaryRowPersisted ==
    /\ MergeDone
    /\ \E i \in DOMAIN Out : Out[i].sun_alt_deg = -120 /\ Out[i].is_night
    /\ \E i \in DOMAIN Out : Out[i].sun_alt_deg > -120 /\ ~Out[i].is_night

\* C8 (as claimed): moon_illum is 0 at phase angle 0 (new moon), 1 at phase
\* angle 180 degrees (full moon), and in [0, 1] at every phase angle.
C8_Illumination ==
    \A i \in DOMAIN df2 :
        LET phase == MoonPhase(df2[i].datetime_utc)
        IN  /\ phase = 0 => df2[i].moon_illum = 0
            /\ phase = 180 => df2[i].moon_illum = 1000
            /\ 0 <= df2[i].moon_illum /\ df2[i].moon_illum <= 1000

\* C9: when the two runs did not overlap, the final file holds the
\* datetime_utc values of both runs' rows.
C9_SequentialRunsKeepBoth ==
    ((\A p \in Procs : cpc[p] = "done") /\ ~overlapped) =>
        \A p \in Procs : TimesOf(cdf[p]) \subseteq TimesOf(Out)

\* C9 witness: both runs are done, they overlapped, and the final file lacks
\* a datetime_utc that one of them merged in (a lost update).
C9_LostUpdate ==
    /\ \A p \in Procs : cpc[p] = "done"
    /\ overlapped
    /\ \E p \in Procs : ~(TimesOf(cdf[p]) \subseteq TimesOf(Out))

\* C10 (as claimed): the datetime_utc values of the persisted dataset are the
\* union of those of every batch merged so far, and a merge keeps every prior
\* row whose datetime_utc is not among the new rows, with its values unchanged.
C10_NoDataLoss ==
    /\ TimesOf(Out) = seen
    /\ MergeDone =>
          \A i \in DOMAIN Existing :
              Existing[i].datetime_utc \notin TimesOf(df2) =>
                  \E j \in DOMAIN Out : Out[j] = Existing[i]

====
